---- MODULE Spec2Model ----
(***************************************************************************)
(* Model of send_email.py: the recipient-processing pipeline of            *)
(* send_messages (validation, dedup, consent gate, template rendering,     *)
(* message building, dispatch with pacing, tally) and the pure helpers it  *)
(* calls.                                                                  *)
(*                                                                         *)
(* A Python str is a sequence of one-character strings.  A value that can  *)
(* be None (a csv.DictReader cell of a short row, an omitted option) is a  *)
(* record with a flag, so that every comparison stays well typed.          *)
(***************************************************************************)
EXTENDS Integers, Sequences, FiniteSets, TLC

\* ------------------------------------------------------------------ bounds
\* Largest number of data rows read from the CSV file in one run.
MaxRows == 3

\* ----------------------------------------------------------------- strings
\* The characters Python's \s and str.strip() treat as whitespace, among the
\* characters used here.
Whitespace == {" ", "\n"}

\* str.lower() on one character.
LowerChar(c) ==
    CASE c = "Y" -> "y"
      [] c = "E" -> "e"
      [] c = "S" -> "s"
      [] c = "T" -> "t"
      [] c = "R" -> "r"
      [] c = "U" -> "u"
      [] c = "N" -> "n"
      [] c = "O" -> "o"
      [] OTHER -> c

\* str.lower()
Lower(s) == [i \in DOMAIN s |-> LowerChar(s[i])]

RECURSIVE LStrip(_)
LStrip(s) ==
    IF s = <<>> THEN s
    ELSE IF Head(s) \in Whitespace THEN LStrip(Tail(s)) ELSE s

RECURSIVE RStrip(_)
RStrip(s) ==
    IF s = <<>> THEN s
    ELSE IF s[Len(s)] \in Whitespace THEN RStrip(SubSeq(s, 1, Len(s) - 1)) ELSE s

\* str.strip()
Strip(s) == RStrip(LStrip(s))

\* ------------------------------------------------------------ Python values
\* A csv.DictReader cell: a string, or None when the row is shorter than the
\* header (restval).
Cell(s) == [none |-> FALSE, v |-> s]
NoneCell == [none |-> TRUE, v |-> <<>>]

\* ------------------------------------------------------------- is_valid_email
\* The body of the pattern between ^ and $ : [^@\s]+@[^@\s]+\.[^@\s]+
FullMatch(s) ==
    /\ \A i \in DOMAIN s : s[i] \notin Whitespace
    /\ Cardinality({i \in DOMAIN s : s[i] = "@"}) = 1
    /\ \E p \in DOMAIN s :
         /\ s[p] = "@"
         /\ p > 1
         /\ \E q \in DOMAIN s : s[q] = "." /\ q > p + 1 /\ q < Len(s)

\* re.match(r"^[^@\s]+@[^@\s]+\.[^@\s]+$", address): $ matches at the end of
\* the string and also just before a newline that ends the string.
ReMatch(address) ==
    \/ FullMatch(address)
    \/ /\ address # <<>>
       /\ address[Len(address)] = "\n"
       /\ FullMatch(SubSeq(address, 1, Len(address) - 1))

is_valid_email(address) ==
    IF address = <<>> THEN FALSE ELSE ReMatch(address)

\* ------------------------------------------------------------------ inputs
\* Addresses, names and consent values the inputs are drawn from.
A_B_C == <<"a", "@", "b", ".", "c">>
A_B_C_padded == <<" ", "a", "@", "b", ".", "c", " ">>
A_B_C_newline == <<"a", "@", "b", ".", "c", "\n">>
C_D_E == <<"c", "@", "d", ".", "e">>
A_B == <<"a", "@", "b">>
Empty == <<>>
Al == <<"A", "l">>
Yes == <<"y", "e", "s">>
Y_padded == <<" ", "Y", " ">>
True_upper == <<"T", "R", "U", "E">>
One == <<"1">>
No == <<"n", "o">>
Plus_B_C == <<"+", "@", "b", ".", "c">>
Bang_B_C == <<"!", "@", "b", ".", "c">>
X == <<"X">>

\* A template is a sequence of tokens: literal text, or a {key} placeholder.
Lit(s) == [key |-> FALSE, s |-> s, k |-> ""]
Key(k) == [key |-> TRUE, s |-> <<>>, k |-> k]

\* default_text, default_html (the literal text is abbreviated: what matters
\* is that both reference {name} and nothing else).
default_text == <<Lit(<<"H", "i", " ">>), Key("name")>>
default_html == <<Lit(<<"<", "p", ">">>), Key("name")>>

\* A --template-text / --template-html option: not given, or the path of a
\* file that can or cannot be read, with its content.
NoPath == [given |-> FALSE, readable |-> FALSE, content |-> <<>>]
File(content) == [given |-> TRUE, readable |-> TRUE, content |-> content]
Unreadable == [given |-> TRUE, readable |-> FALSE, content |-> <<>>]

TextTemplates ==
    { NoPath, Unreadable, File(<<>>),
      File(<<Key("email"), Lit(<<":">>), Key("name")>>),
      File(<<Key("name"), Lit(<<" ">>), Key("city")>>) }
HtmlTemplates == { NoPath, File(<<Lit(<<"<">>), Key("email"), Key("city")>>) }

\* --rate-per-minute as the fraction num/den; absent when not given.
NoRate == [given |-> FALSE, num |-> 0, den |-> 1]
Rate(num, den) == [given |-> TRUE, num |-> num, den |-> den]
Rates == { NoRate, Rate(0, 1), Rate(-1, 1), Rate(2, 1), Rate(1, 200000000) }

\* The header of the CSV file: the column names of every row.
Headers == { {"email", "name", "consent"}, {"email", "name"},
             {"email", "consent", "city"} }

\* The data rows a CSV file with all three columns may hold.  The last two are
\* rows with fewer values than the header: DictReader fills in None.
FullRows ==
    { [email |-> Cell(A_B_C), name |-> Cell(Al), consent |-> Cell(Yes)],
      [email |-> Cell(A_B_C_padded), name |-> Cell(Empty), consent |-> Cell(Y_padded)],
      [email |-> Cell(A_B_C), name |-> Cell(Al), consent |-> Cell(No)],
      [email |-> Cell(C_D_E), name |-> Cell(Empty), consent |-> Cell(True_upper)],
      [email |-> Cell(C_D_E), name |-> Cell(Al), consent |-> Cell(Empty)],
      [email |-> Cell(A_B), name |-> Cell(Al), consent |-> Cell(One)],
      [email |-> Cell(C_D_E), name |-> Cell(Al), consent |-> NoneCell],
      [email |-> Cell(C_D_E), name |-> NoneCell, consent |-> NoneCell] }

\* The data rows a CSV file with the columns email, consent, city may hold: no
\* name column, and two addresses that differ in one character.
CityRows ==
    { [email |-> Cell(Plus_B_C), consent |-> Cell(Yes), city |-> Cell(X)],
      [email |-> Cell(Bang_B_C), consent |-> Cell(Yes), city |-> Cell(Empty)],
      [email |-> Cell(A_B), consent |-> Cell(Yes), city |-> Cell(X)] }

\* The rows of a file with the given header.
Rows(header) ==
    IF "city" \in header THEN CityRows
    ELSE { [k \in header |-> r[k]] : r \in FullRows }

\* row.get(key, "")
Get(row, key) == IF key \in DOMAIN row THEN row[key] ELSE Cell(<<>>)

\* The row of the single --to recipient: an empty dict.
EmptyRow == [k \in {} |-> NoneCell]

\* A path given with --inline or --attach: the name of the file and whether it
\* can be opened and read.
Path(name, readable) == [name |-> name, readable |-> readable]

\* The values of --inline and of --attach (each may be repeated).
InlineLists ==
    { <<>>, << Path("logo.png", TRUE), Path("gone.png", FALSE), Path("sig.png", TRUE) >> }
AttachLists ==
    { <<>>, << Path("lost.pdf", FALSE), Path("doc.pdf", TRUE) >> }

\* The run uses --inline, --attach or --save-eml-dir.
UsesResources(a) == a.inline # <<>> \/ a.attach # <<>> \/ a.save_eml_dir

\* The parsed command line together with the files it names.  An option the
\* chosen recipient source never reads is left at one value; the file with a
\* city column is read with credentials and no pacing, and the runs that use
\* --inline, --attach or --save-eml-dir are taken with credentials, the
\* default templates, no pacing and, for --csv, the file with a city column.
Args ==
    { a \in [ inline : InlineLists,
              attach : AttachLists,
              save_eml_dir : BOOLEAN,
              dry_run : BOOLEAN,
              credentials : BOOLEAN,      \* username and password both set
              csv : BOOLEAN,              \* --csv given (else --to)
              csv_readable : BOOLEAN,
              header : Headers,
              to : {A_B_C, A_B_C_newline, A_B},
              name : {Empty, Al},
              require_consent : BOOLEAN,
              rate_per_minute : Rates,
              template_text : TextTemplates,
              template_html : HtmlTemplates ] :
        /\ a.csv => (a.to = A_B_C /\ a.name = Empty)
        /\ ~a.csv => (a.csv_readable /\ a.header = {"email", "name", "consent"})
        /\ "city" \in a.header => (a.credentials /\ a.rate_per_minute = NoRate)
        /\ UsesResources(a) =>
              /\ a.credentials /\ a.csv_readable /\ a.require_consent
              /\ a.rate_per_minute = NoRate
              /\ a.template_text = NoPath /\ a.template_html = NoPath
              /\ a.to = A_B_C /\ a.name = Empty
              /\ a.csv => a.header = {"email", "consent", "city"} }

\* ------------------------------------------------------------------- state
VARIABLES
    pc,             \* where send_messages is
    args,           \* the parsed options
    smtp,           \* "None", or "open" once connect, STARTTLS and login succeeded
    transport,      \* session operations performed on the transport, in order
    template_text,  \* the loaded templates
    template_html,
    total, sent, skipped, seen,
    cur,            \* the recipient the loop is processing: email_addr, name, row
    msg,            \* the message build_message returned for cur
    outcome,        \* how cur ended ("" while it is being processed)
    prior,          \* valid addresses of the recipients yielded before cur
    yielded,        \* number of recipients the source has yielded
    expected,       \* the tally a run without transport would reach so far
    built,          \* every build_message call: recipient number n, address To
    handed,         \* every smtp.send_message call: recipient number n, To
    pauses,         \* completed time.sleep pauses
    reported,       \* the final summary line, once logged
    fatal,          \* why the process ended early ("" if it did not)
    clock,          \* int(time.time()), counted from the start of the run
    files,          \* the .eml files in save_eml_dir: name (stem, t), message n
    written,        \* recipient numbers whose .eml file was written
    saved           \* persistence of the last message: "none", "saved", "failed"

vars == << pc, args, smtp, transport, template_text, template_html,
           total, sent, skipped, seen, cur, msg, outcome, prior, yielded,
           expected, built, handed, pauses, reported, fatal,
           clock, files, written, saved >>

\* What build_message leaves on disk.
disk == << clock, files, written, saved >>

NoRecipient == [email_addr |-> <<>>, name |-> <<>>, row |-> EmptyRow]
NoMessage == [To |-> <<>>, text_body |-> <<>>, html_body |-> <<>>, parts |-> <<>>]
NoReport == [logged |-> FALSE, total |-> 0, sent |-> 0, skipped |-> 0]
ZeroTally == [total |-> 0, sent |-> 0, skipped |-> 0]

Init ==
    /\ args \in Args
    /\ pc = "start"
    /\ smtp = "None"
    /\ transport = <<>>
    /\ template_text = <<>>
    /\ template_html = <<>>
    /\ total = 0 /\ sent = 0 /\ skipped = 0 /\ seen = {}
    /\ cur = NoRecipient
    /\ msg = NoMessage
    /\ outcome = ""
    /\ prior = {}
    /\ yielded = 0
    /\ expected = ZeroTally
    /\ built = <<>>
    /\ handed = <<>>
    /\ pauses = 0
    /\ reported = NoReport
    /\ fatal = ""
    /\ clock = 0
    /\ files = {}
    /\ written = {}
    /\ saved = "none"

\* -------------------------------------------------------------- load_text
\* The text of the file at path, or failure: load_text then calls sys.exit(1).
load_text(path) ==
    IF ~path.given THEN [ok |-> TRUE, text |-> <<>>]
    ELSE IF path.readable THEN [ok |-> TRUE, text |-> path.content]
    ELSE [ok |-> FALSE, text |-> <<>>]

\* ---------------------------------------------------------- render_template
\* The placeholders of a template that the variables do not bind.
MissingKeys(template_str, variables) ==
    { template_str[i].k : i \in { j \in DOMAIN template_str :
          template_str[j].key /\ template_str[j].k \notin DOMAIN variables } }

\* Mutant of render_template: a placeholder that is not bound is replaced by an
\* empty string instead of raising.
render_template_blank(template_str, variables) ==
    [ok |-> TRUE,
     text |-> [i \in DOMAIN template_str |->
                 IF template_str[i].key
                 THEN IF template_str[i].k \in DOMAIN variables
                      THEN variables[template_str[i].k]
                      ELSE Cell(<<>>)
                 ELSE Cell(template_str[i].s)]]

\* template_str.format(**variables): every placeholder replaced by the value
\* bound to it; a KeyError (sys.exit(1)) when a placeholder is not bound.
render_template(template_str, variables) ==
    IF MissingKeys(template_str, variables) # {}
    THEN [ok |-> FALSE, text |-> <<>>]
    ELSE [ok |-> TRUE,
          text |-> [i \in DOMAIN template_str |->
                      IF template_str[i].key
                      THEN variables[template_str[i].k]
                      ELSE Cell(template_str[i].s)]]

\* ---------------------------------------------------------------- pacing
\* time.sleep raises OverflowError for a delay over 2^63 nanoseconds, which is
\* 153722867 whole minutes.
SleepMaxMinutes == 153722867

NoDelay == [n |-> 0, d |-> 1]

\* rate_delay = 60.0 / rate_per_minute seconds, kept as the fraction n/d of
\* minutes; 0.0 when the rate is absent, zero or negative.
rate_delay(a) ==
    IF a.rate_per_minute.given /\ a.rate_per_minute.num # 0
       /\ a.rate_per_minute.num > 0
    THEN [n |-> a.rate_per_minute.den, d |-> a.rate_per_minute.num]
    ELSE NoDelay

\* rate_delay > 0
Positive(delay) == delay.n > 0

\* time.sleep(delay) raises instead of pausing.
SleepRaises(delay) == delay.n > SleepMaxMinutes * delay.d

\* ------------------------------------------------------------ consent gate
Affirmative == { <<"1">>, <<"t", "r", "u", "e">>, <<"y", "e", "s">>, <<"y">> }

\* row.get(args.consent_field, "") if row else ""
ConsentCell(row) ==
    IF DOMAIN row # {} /\ "consent" \in DOMAIN row THEN row["consent"] ELSE Cell(<<>>)

\* .strip() on the consent cell raises AttributeError when the cell is None.
ConsentRaises(a, row) == a.require_consent /\ ConsentCell(row).none

\* Mutant of ConsentSkips: an empty consent value is taken as affirmative.
ConsentSkips_emptyPasses(a, row) ==
    /\ a.require_consent
    /\ a.csv
    /\ Lower(Strip(ConsentCell(row).v)) \notin Affirmative \cup {<<>>}

\* The recipient is skipped for lack of consent.
ConsentSkips(a, row) ==
    /\ a.require_consent
    /\ a.csv
    /\ Lower(Strip(ConsentCell(row).v)) \notin Affirmative

\* --------------------------------------------------------------- variables
\* Mutant of Variables: a column of the row replaces a base field of the same
\* name.
Variables_rowOverrides(email_addr, name, row) ==
    [k \in {"name", "email"} \cup DOMAIN row |->
        IF k \in DOMAIN row THEN row[k]
        ELSE IF k = "name" THEN Cell(IF name # <<>> THEN name ELSE email_addr)
        ELSE Cell(email_addr)]

\* Mutant of Variables: a column whose cell is empty in this row is left out.
Variables_dropsEmpty(email_addr, name, row) ==
    [k \in {"name", "email"} \cup { c \in DOMAIN row : row[c] # Cell(<<>>) } |->
        IF k = "name" THEN Cell(IF name # <<>> THEN name ELSE email_addr)
        ELSE IF k = "email" THEN Cell(email_addr)
        ELSE row[k]]

\* The template variables of a recipient: the two base fields, then every
\* column of the row that does not collide with them.
Variables(email_addr, name, row) ==
    [k \in {"name", "email"} \cup DOMAIN row |->
        IF k = "name" THEN Cell(IF name # <<>> THEN name ELSE email_addr)
        ELSE IF k = "email" THEN Cell(email_addr)
        ELSE row[k]]

\* text_body / html_body: the rendering of a template, "" for an empty one.
Body(template_str, rec) ==
    IF template_str # <<>>
    THEN render_template(template_str, Variables(rec.email_addr, rec.name, rec.row))
    ELSE [ok |-> TRUE, text |-> <<>>]

\* ------------------------------------------------- attach_inline / _regular
\* The part is attached only when the file was opened and read; any exception
\* is caught and logged, and the message is left as it was.
attach_inline(parts, path) ==
    IF path.readable THEN Append(parts, [kind |-> "inline", name |-> path.name])
    ELSE parts

attach_regular(parts, path) ==
    IF path.readable THEN Append(parts, [kind |-> "attachment", name |-> path.name])
    ELSE parts

\* for p in inline_paths or []: attach_inline(msg, p)
RECURSIVE InlineLoop(_, _)
InlineLoop(parts, paths) ==
    IF paths = <<>> THEN parts
    ELSE InlineLoop(attach_inline(parts, Head(paths)), Tail(paths))

\* for p in attach_paths or []: attach_regular(msg, p)
RECURSIVE AttachLoop(_, _)
AttachLoop(parts, paths) ==
    IF paths = <<>> THEN parts
    ELSE AttachLoop(attach_regular(parts, Head(paths)), Tail(paths))

\* The alternative group: the plain part, then the html part, each only when
\* its body is not empty.  The group itself is always attached.
Alternative(text_body, html_body) ==
    [kind |-> "alternative",
     name |-> (IF text_body # <<>> THEN "plain" ELSE "") \o
              (IF html_body # <<>> THEN "html" ELSE "")]

\* ------------------------------------------------------------ build_message
\* Mutant of build_message: the attachments are appended before the inline
\* resources.
build_message_attachFirst(to_addr, text_body, html_body, inline_paths, attach_paths) ==
    [To |-> to_addr, text_body |-> text_body, html_body |-> html_body,
     parts |-> InlineLoop(AttachLoop(<< Alternative(text_body, html_body) >>,
                                     attach_paths), inline_paths)]

\* The message returned: the alternative group, the inline resources, the
\* attachments.
build_message(to_addr, text_body, html_body, inline_paths, attach_paths) ==
    [To |-> to_addr, text_body |-> text_body, html_body |-> html_body,
     parts |-> AttachLoop(InlineLoop(<< Alternative(text_body, html_body) >>,
                                     inline_paths), attach_paths)]

\* ----------------------------------------------------------- EML persistence
\* The characters of [a-zA-Z0-9_.-].
SafeChars ==
    { "a", "b", "c", "d", "e", "f", "g", "h", "i", "j", "k", "l", "m", "n", "o",
      "p", "q", "r", "s", "t", "u", "v", "w", "x", "y", "z",
      "A", "B", "C", "D", "E", "F", "G", "H", "I", "J", "K", "L", "M", "N", "O",
      "P", "Q", "R", "S", "T", "U", "V", "W", "X", "Y", "Z",
      "0", "1", "2", "3", "4", "5", "6", "7", "8", "9", "_", ".", "-" }

\* re.sub(r"[^a-zA-Z0-9_.-]", "_", s)
Sanitize(s) == [i \in DOMAIN s |-> IF s[i] \in SafeChars THEN s[i] ELSE "_"]

\* The name of the .eml file: the sanitised "{to_addr}_{t}.eml".  The digits of
\* t and the suffix are left as they are, so the name is given by the sanitised
\* address and t.
EmlName(to_addr, t) == [stem |-> Sanitize(to_addr), t |-> t]

\* open(dest, "w") and write: the file of that name now holds message n.
WriteFile(dir, name, n) ==
    { f \in dir : [stem |-> f.stem, t |-> f.t] # name }
        \cup { [stem |-> name.stem, t |-> name.t, n |-> n] }

\* The try block of build_message at time t: the file is written, or an
\* exception (makedirs, open, write) is caught and logged.
Persist(to_addr, t, raises) ==
    /\ clock' = t
    /\ IF raises
       THEN files' = files /\ written' = written /\ saved' = "failed"
       ELSE /\ files' = WriteFile(files, EmlName(to_addr, t), yielded)
            /\ written' = written \cup {yielded}
            /\ saved' = "saved"

\* ---------------------------------------------------------------- dedup
\* Mutant of IsDuplicate: an address is never recognised as seen.
IsDuplicate_never(email_addr, seen_set) == FALSE

\* email_addr in seen
IsDuplicate(email_addr, seen_set) == email_addr \in seen_set

\* Mutant of SeenAdd: the address is not recorded.
SeenAdd_forgets(seen_set, email_addr) == seen_set

\* seen.add(email_addr)
SeenAdd(seen_set, email_addr) == seen_set \cup {email_addr}

\* ------------------------------------------------------------------ startup
\* Dry-run: no transport is created (smtp stays None).
StartDryRun ==
    /\ pc = "start"
    /\ args.dry_run
    /\ pc' = "load_templates"
    /\ UNCHANGED disk
    /\ UNCHANGED << args, smtp, transport, template_text, template_html, total,
                    sent, skipped, seen, cur, msg, outcome, prior, yielded,
                    expected, built, handed, pauses, reported, fatal >>

\* Live mode without username or password: sys.exit(1).
MissingCredentials ==
    /\ pc = "start"
    /\ ~args.dry_run
    /\ ~args.credentials
    /\ pc' = "exit"
    /\ fatal' = "credentials"
    /\ UNCHANGED disk
    /\ UNCHANGED << args, smtp, transport, template_text, template_html, total,
                    sent, skipped, seen, cur, msg, outcome, prior, yielded,
                    expected, built, handed, pauses, reported >>

\* Mutant of OpenTransport: a login that raises is logged and the run goes on
\* with the session.
OpenTransport_ignoresLogin ==
    /\ pc = "start"
    /\ ~args.dry_run
    /\ args.credentials
    /\ \E raises \in {"none", "connect", "starttls", "login"} :
         /\ transport' =
               CASE raises = "connect" -> <<"connect_raised">>
                 [] raises = "starttls" -> <<"connect", "starttls_raised">>
                 [] raises = "login" -> <<"connect", "starttls", "login_raised">>
                 [] OTHER -> <<"connect", "starttls", "login">>
         /\ IF raises \in {"none", "login"}
            THEN smtp' = "open" /\ pc' = "load_templates" /\ fatal' = fatal
            ELSE smtp' = smtp /\ pc' = "exit" /\ fatal' = "smtp"
    /\ UNCHANGED disk
    /\ UNCHANGED << args, template_text, template_html, total, sent, skipped,
                    seen, cur, msg, outcome, prior, yielded, expected, built,
                    handed, pauses, reported >>

\* smtplib.SMTP(...), starttls(), login(): the first one that raises ends the
\* process with sys.exit(1); the operations before it have been performed.
OpenTransport ==
    /\ pc = "start"
    /\ ~args.dry_run
    /\ args.credentials
    /\ \E raises \in {"none", "connect", "starttls", "login"} :
         /\ transport' =
               CASE raises = "connect" -> <<"connect_raised">>
                 [] raises = "starttls" -> <<"connect", "starttls_raised">>
                 [] raises = "login" -> <<"connect", "starttls", "login_raised">>
                 [] OTHER -> <<"connect", "starttls", "login">>
         /\ IF raises = "none"
            THEN smtp' = "open" /\ pc' = "load_templates" /\ fatal' = fatal
            ELSE smtp' = smtp /\ pc' = "exit" /\ fatal' = "smtp"
    /\ UNCHANGED disk
    /\ UNCHANGED << args, template_text, template_html, total, sent, skipped,
                    seen, cur, msg, outcome, prior, yielded, expected, built,
                    handed, pauses, reported >>

\* Both templates are loaded, the text one first; an unreadable file ends the
\* process with sys.exit(1).  Then the counters are initialised.
LoadTemplates ==
    /\ pc = "load_templates"
    /\ LET t == load_text(args.template_text)
           h == load_text(args.template_html)
       IN  IF t.ok /\ h.ok
           THEN /\ template_text' = IF args.template_text.given THEN t.text ELSE default_text
                /\ template_html' = IF args.template_html.given THEN h.text ELSE default_html
                /\ total' = 0 /\ sent' = 0 /\ skipped' = 0 /\ seen' = {}
                /\ pc' = "iterate"
                /\ fatal' = fatal
           ELSE /\ pc' = "exit"
                /\ fatal' = "template_file"
                /\ UNCHANGED << template_text, template_html, total, sent,
                                skipped, seen >>
    /\ UNCHANGED disk
    /\ UNCHANGED << args, smtp, transport, cur, msg, outcome, prior, yielded,
                    expected, built, handed, pauses, reported >>

\* ------------------------------------------------------------ the recipients
\* The recipient iter_recipients yields from a CSV row.
FromRow(row) ==
    [email_addr |-> Strip(Get(row, "email").v), name |-> Strip(Get(row, "name").v),
     row |-> row]

\* .strip() on the email or name cell raises AttributeError when it is None.
RowRaises(row) == Get(row, "email").none \/ Get(row, "name").none

\* The valid addresses among the recipients yielded so far, cur included.
PriorWith(rec) ==
    IF is_valid_email(rec.email_addr) THEN prior \cup {rec.email_addr} ELSE prior

\* The tally after one more recipient when nothing but the recipient and the
\* options decides its outcome (no transport): t is the tally so far, earlier
\* the valid addresses met before rec.
TallyStep(t, earlier, rec, a) ==
    IF /\ is_valid_email(rec.email_addr)
       /\ rec.email_addr \notin earlier
       /\ ~(a.require_consent /\ a.csv
            /\ Lower(Strip(ConsentCell(rec.row).v)) \notin Affirmative)
    THEN [total |-> t.total + 1, sent |-> t.sent + 1, skipped |-> t.skipped]
    ELSE [total |-> t.total + 1, sent |-> t.sent, skipped |-> t.skipped + 1]

\* The loop takes the recipient rec from the source: total += 1.
Take(rec) ==
    /\ cur' = rec
    /\ total' = total + 1
    /\ yielded' = yielded + 1
    /\ outcome' = ""
    /\ prior' = PriorWith(cur)
    /\ expected' = TallyStep(expected, PriorWith(cur), rec, args)
    /\ pc' = "validate"
    /\ fatal' = fatal

\* An uncaught exception ends the process with a traceback.
Crash(why) ==
    /\ pc' = "crash"
    /\ fatal' = why
    /\ UNCHANGED << cur, total, yielded, outcome, prior, expected >>

\* --csv: open() fails on the first next(); otherwise the reader yields the
\* next data row, stripping the email and name cells.
NextCsvRow ==
    /\ pc = "iterate"
    /\ args.csv
    /\ IF ~args.csv_readable
       THEN Crash("csv_open")
       ELSE /\ yielded < MaxRows
            /\ \E row \in Rows(args.header) :
                 IF RowRaises(row) THEN Crash("none_strip") ELSE Take(FromRow(row))
    /\ UNCHANGED disk
    /\ UNCHANGED << args, smtp, transport, template_text, template_html, sent,
                    skipped, seen, msg, built, handed, pauses, reported >>

\* --to: the single recipient, as given, with an empty row.
NextSingle ==
    /\ pc = "iterate"
    /\ ~args.csv
    /\ yielded = 0
    /\ Take([email_addr |-> args.to, name |-> args.name, row |-> EmptyRow])
    /\ UNCHANGED disk
    /\ UNCHANGED << args, smtp, transport, template_text, template_html, sent,
                    skipped, seen, msg, built, handed, pauses, reported >>

\* The source is exhausted: the loop ends.
Exhausted ==
    /\ pc = "iterate"
    /\ IF args.csv THEN args.csv_readable ELSE yielded = 1
    /\ pc' = "close"
    /\ UNCHANGED disk
    /\ UNCHANGED << args, smtp, transport, template_text, template_html, total,
                    sent, skipped, seen, cur, msg, outcome, prior, yielded,
                    expected, built, handed, pauses, reported, fatal >>

\* ------------------------------------------------------------------ gates
\* The recipient ends as skipped: skipped += 1; continue.
Skip(why) ==
    /\ skipped' = skipped + 1
    /\ outcome' = why
    /\ pc' = "iterate"

\* Mutant of Validate: an address that fails validation is recorded as seen.
Validate_recordsInvalid ==
    /\ pc = "validate"
    /\ IF ~is_valid_email(cur.email_addr)
       THEN Skip("invalid") /\ seen' = seen \cup {cur.email_addr}
       ELSE pc' = "dedup" /\ UNCHANGED << skipped, outcome, seen >>
    /\ UNCHANGED disk
    /\ UNCHANGED << args, smtp, transport, template_text, template_html, total,
                    sent, cur, msg, prior, yielded, expected, built,
                    handed, pauses, reported, fatal >>

\* The validation gate: an address that is not valid is skipped.
Validate ==
    /\ pc = "validate"
    /\ IF ~is_valid_email(cur.email_addr)
       THEN Skip("invalid")
       ELSE pc' = "dedup" /\ UNCHANGED << skipped, outcome >>
    /\ UNCHANGED disk
    /\ UNCHANGED << args, smtp, transport, template_text, template_html, total,
                    sent, seen, cur, msg, prior, yielded, expected, built,
                    handed, pauses, reported, fatal >>

Dedup ==
    /\ pc = "dedup"
    /\ IF IsDuplicate(cur.email_addr, seen)
       THEN Skip("duplicate") /\ seen' = seen
       ELSE /\ seen' = SeenAdd(seen, cur.email_addr)
            /\ pc' = "consent"
            /\ UNCHANGED << skipped, outcome >>
    /\ UNCHANGED disk
    /\ UNCHANGED << args, smtp, transport, template_text, template_html, total,
                    sent, cur, msg, prior, yielded, expected, built, handed,
                    pauses, reported, fatal >>

Consent ==
    /\ pc = "consent"
    /\ IF ConsentRaises(args, cur.row)
       THEN pc' = "crash" /\ fatal' = "none_strip" /\ UNCHANGED << skipped, outcome >>
       ELSE /\ fatal' = fatal
            /\ IF ConsentSkips(args, cur.row)
               THEN Skip("no_consent")
               ELSE pc' = "render" /\ UNCHANGED << skipped, outcome >>
    /\ UNCHANGED disk
    /\ UNCHANGED << args, smtp, transport, template_text, template_html, total,
                    sent, seen, cur, msg, prior, yielded, expected, built,
                    handed, pauses, reported >>

\* ----------------------------------------------------------- render, build
\* Both bodies are rendered, the text one first; a missing variable ends the
\* process with sys.exit(1).
Render ==
    /\ pc = "render"
    /\ IF Body(template_text, cur).ok /\ Body(template_html, cur).ok
       THEN pc' = "build" /\ fatal' = fatal
       ELSE pc' = "exit" /\ fatal' = "missing_variable"
    /\ UNCHANGED disk
    /\ UNCHANGED << args, smtp, transport, template_text, template_html, total,
                    sent, skipped, seen, cur, msg, outcome, prior, yielded,
                    expected, built, handed, pauses, reported >>

\* Mutant of Build: a failure to save the .eml file ends the process.
Build_persistAborts ==
    /\ pc = "build"
    /\ msg' = build_message(cur.email_addr, Body(template_text, cur).text,
                            Body(template_html, cur).text, args.inline, args.attach)
    /\ built' = Append(built, [n |-> yielded, To |-> cur.email_addr])
    /\ IF args.save_eml_dir
       THEN \E tick \in {0, 1}, raises \in BOOLEAN :
              /\ Persist(cur.email_addr, clock + tick, raises)
              /\ pc' = IF raises THEN "crash" ELSE "dispatch"
       ELSE /\ saved' = "none" /\ UNCHANGED << clock, files, written >>
            /\ pc' = "dispatch"
    /\ UNCHANGED << args, smtp, transport, template_text, template_html, total,
                    sent, skipped, seen, cur, outcome, prior, yielded, expected,
                    handed, pauses, reported, fatal >>

\* build_message: the message is assembled and, with --save-eml-dir, saved
\* under a name made of the address and the current second; the clock may have
\* moved on since the previous message.
Build ==
    /\ pc = "build"
    /\ msg' = build_message(cur.email_addr, Body(template_text, cur).text,
                            Body(template_html, cur).text, args.inline, args.attach)
    /\ built' = Append(built, [n |-> yielded, To |-> cur.email_addr])
    /\ IF args.save_eml_dir
       THEN \E tick \in {0, 1}, raises \in BOOLEAN :
              Persist(cur.email_addr, clock + tick, raises)
       ELSE saved' = "none" /\ UNCHANGED << clock, files, written >>
    /\ pc' = "dispatch"
    /\ UNCHANGED << args, smtp, transport, template_text, template_html, total,
                    sent, skipped, seen, cur, outcome, prior, yielded, expected,
                    handed, pauses, reported, fatal >>

\* ---------------------------------------------------------------- dispatch
\* Mutant of DispatchDryRun: the dry run transmits the message.
DispatchDryRun_transmits ==
    /\ pc = "dispatch"
    /\ args.dry_run
    /\ handed' = Append(handed, [n |-> yielded, To |-> msg.To])
    /\ sent' = sent + 1
    /\ outcome' = "sent"
    /\ pc' = "iterate"
    /\ UNCHANGED disk
    /\ UNCHANGED << args, smtp, transport, template_text, template_html, total,
                    skipped, seen, cur, msg, prior, yielded, expected, built,
                    pauses, reported, fatal >>

\* Dry-run: the message is counted as sent, nothing is transmitted.
DispatchDryRun ==
    /\ pc = "dispatch"
    /\ args.dry_run
    /\ sent' = sent + 1
    /\ outcome' = "sent"
    /\ pc' = "iterate"
    /\ UNCHANGED disk
    /\ UNCHANGED << args, smtp, transport, template_text, template_html, total,
                    skipped, seen, cur, msg, prior, yielded, expected, built,
                    handed, pauses, reported, fatal >>

\* smtp.send_message(msg) returns: sent += 1, then the pacing sleep.  The sleep
\* is inside the same try block: when it raises, the except clause also
\* counts the recipient as skipped.
SendSucceeds ==
    /\ pc = "dispatch"
    /\ ~args.dry_run
    /\ handed' = Append(handed, [n |-> yielded, To |-> msg.To])
    /\ sent' = sent + 1
    /\ IF Positive(rate_delay(args))
       THEN IF SleepRaises(rate_delay(args))
            THEN /\ skipped' = skipped + 1
                 /\ outcome' = "sent_and_skipped"
                 /\ pauses' = pauses
            ELSE /\ pauses' = pauses + 1
                 /\ outcome' = "sent"
                 /\ skipped' = skipped
       ELSE /\ outcome' = "sent"
            /\ UNCHANGED << skipped, pauses >>
    /\ pc' = "iterate"
    /\ UNCHANGED disk
    /\ UNCHANGED << args, smtp, transport, template_text, template_html, total,
                    seen, cur, msg, prior, yielded, expected, built, reported,
                    fatal >>

\* Mutant of SendFails: the exception is not caught and ends the process.
SendFails_aborts ==
    /\ pc = "dispatch"
    /\ ~args.dry_run
    /\ handed' = Append(handed, [n |-> yielded, To |-> msg.To])
    /\ pc' = "crash"
    /\ fatal' = "send"
    /\ UNCHANGED disk
    /\ UNCHANGED << args, smtp, transport, template_text, template_html, total,
                    sent, skipped, seen, cur, msg, outcome, prior, yielded,
                    expected, built, pauses, reported >>

\* smtp.send_message(msg) raises: the exception is caught, skipped += 1, and
\* the loop goes on.
SendFails ==
    /\ pc = "dispatch"
    /\ ~args.dry_run
    /\ handed' = Append(handed, [n |-> yielded, To |-> msg.To])
    /\ skipped' = skipped + 1
    /\ outcome' = "send_failed"
    /\ pc' = "iterate"
    /\ UNCHANGED disk
    /\ UNCHANGED << args, smtp, transport, template_text, template_html, total,
                    sent, seen, cur, msg, prior, yielded, expected, built,
                    pauses, reported, fatal >>

\* ------------------------------------------------------------------- close
\* if smtp: smtp.quit(), whose exception is swallowed.
QuitTransport ==
    /\ pc = "close"
    /\ IF smtp = "open"
       THEN \E raises \in BOOLEAN :
              transport' = Append(transport, IF raises THEN "quit_raised" ELSE "quit")
       ELSE transport' = transport
    /\ pc' = "summary"
    /\ UNCHANGED disk
    /\ UNCHANGED << args, smtp, template_text, template_html, total, sent,
                    skipped, seen, cur, msg, outcome, prior, yielded, expected,
                    built, handed, pauses, reported, fatal >>

\* The final summary line.
LogSummary ==
    /\ pc = "summary"
    /\ reported' = [logged |-> TRUE, total |-> total, sent |-> sent, skipped |-> skipped]
    /\ pc' = "done"
    /\ UNCHANGED disk
    /\ UNCHANGED << args, smtp, transport, template_text, template_html, total,
                    sent, skipped, seen, cur, msg, outcome, prior, yielded,
                    expected, built, handed, pauses, fatal >>

\* ------------------------------------------------------------ send_messages
Next ==
    \/ StartDryRun
    \/ MissingCredentials
    \/ OpenTransport
    \/ LoadTemplates
    \/ NextCsvRow
    \/ NextSingle
    \/ Exhausted
    \/ Validate
    \/ Dedup
    \/ Consent
    \/ Render
    \/ Build
    \/ DispatchDryRun
    \/ SendSucceeds
    \/ SendFails
    \/ QuitTransport
    \/ LogSummary

Spec == Init /\ [][Next]_vars

\* ================================================================== claims
Range(f) == { f[i] : i \in DOMAIN f }

\* The process has ended: normally, by sys.exit(1), or by an uncaught exception.
Ended == pc \in {"done", "exit", "crash"}

\* The loop is between two recipients, or past the last one.
AtBoundary == pc \in {"iterate", "close", "summary", "done"}

\* The consent value of a row as the gate reads it: trimmed and lower-cased,
\* empty when the column is absent.
ConsentOf(row) ==
    Lower(Strip(IF "consent" \in DOMAIN row THEN row["consent"].v ELSE <<>>))

\* A positive --rate-per-minute was given.
PositiveRate == args.rate_per_minute.given /\ args.rate_per_minute.num > 0

\* C1: when the final summary is logged, sent + skipped = total and total is
\* the number of recipients the source yielded.
C1_TallyBalanced ==
    reported.logged =>
        /\ reported.sent + reported.skipped = reported.total
        /\ reported.total = yielded

\* C2: no address is passed to smtp.send_message more than once in a run.
C2_NoAddressHandedTwice ==
    \A i, j \in DOMAIN handed : i # j => handed[i].To # handed[j].To

\* C2 witness: the only send so far failed, and the same address has come up
\* again and was skipped as a duplicate instead of being retried.
C2_Witness ==
    /\ outcome = "duplicate"
    /\ sent = 0
    /\ Len(handed) = 1
    /\ handed[1].To = cur.email_addr

\* C3: every build_message call is for the current recipient, whose address is
\* valid and, when consent is required and the source is CSV, whose consent is
\* affirmative; and only a built message is handed to the transport.
C3_BuildOnlyAfterGates ==
    [][ /\ built' # built =>
            /\ built' = Append(built, [n |-> yielded, To |-> cur.email_addr])
            /\ is_valid_email(cur.email_addr)
            /\ (args.require_consent /\ args.csv) => ConsentOf(cur.row) \in Affirmative
        /\ handed' # handed =>
            /\ Len(handed') = Len(handed) + 1
            /\ handed'[Len(handed')] \in Range(built) ]_vars

\* C3 witness: with consent required, a CSV run has refused some rows and has
\* built a message for one that passed.
C3_Witness ==
    /\ pc = "dispatch"
    /\ args.csv
    /\ args.require_consent
    /\ skipped = 2
    /\ Len(built) = 1

\* The current recipient passed the consent gate.
GatePassed ==
    \/ pc \in {"render", "build", "dispatch"}
    \/ outcome \in {"sent", "send_failed", "sent_and_skipped"}
    \/ fatal = "missing_variable"

\* C4: with consent required and a CSV source, the gate decides every valid,
\* non-duplicate row: the row passes when its trimmed, lower-cased consent
\* value is one of 1, true, yes, y and is counted as skipped otherwise, also
\* when the row has no consent value; in no other mode is a recipient skipped
\* for lack of consent.
C4_ConsentGate ==
    /\ outcome = "no_consent" =>
          /\ args.require_consent
          /\ args.csv
          /\ ConsentOf(cur.row) \notin {<<"1">>, <<"t", "r", "u", "e">>, <<"y", "e", "s">>, <<"y">>}
    /\ (GatePassed /\ args.require_consent /\ args.csv) =>
          ConsentOf(cur.row) \in {<<"1">>, <<"t", "r", "u", "e">>, <<"y", "e", "s">>, <<"y">>}
    /\ (pc = "crash" /\ yielded > 0 /\ outcome = "") => ~ConsentCell(cur.row).none

\* C5: a step of the live dispatch that does not count the recipient as sent
\* (the transport raised) counts it as skipped and returns to the loop: it
\* ends nothing and changes no other recipient's count.
C5_SendFailureIsolated ==
    [][ (pc = "dispatch" /\ ~args.dry_run /\ sent' = sent) =>
            /\ pc' = "iterate"
            /\ skipped' = skipped + 1
            /\ total' = total
            /\ fatal' = ""
            /\ reported' = reported ]_vars

\* C5 witness: the first recipient failed in transport, the second was sent,
\* and the summary was logged.
C5_Witness ==
    /\ reported.logged
    /\ ~PositiveRate
    /\ Len(handed) = 2
    /\ outcome = "sent"
    /\ reported.total = 2 /\ reported.sent = 1 /\ reported.skipped = 1

\* C6: a message is built only when every placeholder of both templates is
\* bound, and its bodies carry the bound values; a missing variable ends the
\* process with sys.exit(1) at that recipient: nothing built or handed over
\* for it, no summary, no further step.
C6_MissingVariableAborts ==
    /\ pc \in {"build", "dispatch"} =>
          /\ MissingKeys(template_text, Variables(cur.email_addr, cur.name, cur.row)) = {}
          /\ MissingKeys(template_html, Variables(cur.email_addr, cur.name, cur.row)) = {}
    /\ pc = "dispatch" =>
          /\ \A i \in DOMAIN template_text :
                template_text[i].key =>
                    msg.text_body[i] =
                        Variables(cur.email_addr, cur.name, cur.row)[template_text[i].k]
          /\ \A i \in DOMAIN template_html :
                template_html[i].key =>
                    msg.html_body[i] =
                        Variables(cur.email_addr, cur.name, cur.row)[template_html[i].k]
    /\ fatal = "missing_variable" =>
          /\ pc = "exit"
          /\ ~reported.logged
          /\ outcome = ""
          /\ total = yielded
          /\ \A b \in Range(built) : b.n # yielded
          /\ \A h \in Range(handed) : h.n # yielded
          /\ ~ENABLED Next

\* C6 witness: a CSV run aborted on a missing variable after skipping a row.
C6_Witness ==
    /\ fatal = "missing_variable"
    /\ args.csv
    /\ skipped = 1
    /\ total = 2

\* C7: once the transport session is open, the process does not end without
\* attempting smtp.quit().
C7_QuitBeforeExit ==
    (Ended /\ smtp = "open") =>
        \E i \in DOMAIN transport : transport[i] \in {"quit", "quit_raised"}

\* C8: between recipients, the number of pauses equals the number of
\* successful live sends when a positive rate is configured, and is zero
\* otherwise.
C8_PauseAfterEachLiveSend ==
    AtBoundary =>
        pauses = IF ~args.dry_run /\ PositiveRate THEN sent ELSE 0

\* C9: a dry run performs no transport operation and does not need
\* credentials, and the tally it reports is the one the recipients and the
\* options alone determine.
C9_DryRunDeterministic ==
    args.dry_run =>
        /\ smtp = "None"
        /\ transport = <<>>
        /\ handed = <<>>
        /\ fatal # "credentials"
        /\ reported.logged =>
              [total |-> reported.total, sent |-> reported.sent,
               skipped |-> reported.skipped] = expected

\* C9 witness: a dry run without credentials has logged a summary with both
\* sent and skipped recipients.
C9_Witness ==
    /\ args.dry_run
    /\ ~args.credentials
    /\ reported.logged
    /\ reported.sent >= 1
    /\ reported.skipped >= 1

\* C10: in CSV mode a row whose address is the valid address of an earlier row
\* goes no further than the dedup check and ends as a duplicate.
C10_LaterRowIsDuplicate ==
    (args.csv /\ cur.email_addr \in prior) =>
        \/ pc \in {"validate", "dedup"} /\ outcome = ""
        \/ outcome = "duplicate"

\* C10 witness: the first row lacked consent and was skipped; the second row has
\* the same address and affirmative consent and was skipped as a duplicate.
C10_Witness ==
    /\ args.csv
    /\ args.require_consent
    /\ outcome = "duplicate"
    /\ total = 2
    /\ skipped = 2
    /\ handed = <<>>
    /\ ConsentOf(cur.row) \in Affirmative

\* C11: in CSV mode a missing email, name or consent cell never ends the run
\* with an exception, and a column that the header does not have reads as the
\* empty string.
C11_MissingCellNeverRaises ==
    /\ fatal # "none_strip"
    /\ (args.csv /\ yielded > 0 /\ "name" \notin args.header) => cur.name = <<>>

\* C12: a fatal startup error ends the process before any recipient is read or
\* counted; a message is handed only to a session whose connect, STARTTLS and
\* login all succeeded, and a run connects at most once.
C12_FatalStartupBeforeRecipients ==
    /\ fatal \in {"credentials", "smtp", "template_file"} =>
          /\ pc = "exit"
          /\ yielded = 0 /\ total = 0 /\ sent = 0 /\ skipped = 0
          /\ built = <<>> /\ handed = <<>>
          /\ ~reported.logged
    /\ handed # <<>> =>
          /\ smtp = "open"
          /\ Len(transport) >= 3
          /\ SubSeq(transport, 1, 3) = <<"connect", "starttls", "login">>
    /\ Cardinality({ i \in DOMAIN transport :
                       transport[i] \in {"connect", "connect_raised"} }) <= 1

\* C12 witness: the login raised after a successful connect and STARTTLS, and
\* the process has exited.
C12_Witness ==
    /\ fatal = "smtp"
    /\ pc = "exit"
    /\ transport = <<"connect", "starttls", "login_raised">>

\* A string with exactly one @, no whitespace, and after the @ a dot with text
\* before and after it (and text before the @).
WellFormed(s) ==
    /\ Cardinality({ i \in DOMAIN s : s[i] = "@" }) = 1
    /\ \A i \in DOMAIN s : s[i] \notin Whitespace
    /\ \E at \in DOMAIN s, dot \in DOMAIN s :
          /\ s[at] = "@" /\ s[dot] = "."
          /\ 1 < at /\ at + 1 < dot /\ dot < Len(s)

\* C13: every address that passed is_valid_email has exactly one @, no
\* whitespace and a dot inside the part after the @; a@b.c passes, the empty
\* string and a@b do not.
C13_ValidOnlyIfWellFormed ==
    /\ \A a \in seen : WellFormed(a)
    /\ is_valid_email(A_B_C)
    /\ ~is_valid_email(Empty)
    /\ ~is_valid_email(A_B)

\* C14: between recipients every recipient taken so far has been counted once
\* in total and once in exactly one of sent and skipped.
C14_OneOutcomePerRecipient ==
    /\ outcome # "sent_and_skipped"
    /\ AtBoundary => (total = yielded /\ sent + skipped = total)

\* The parts that the readable files of paths give, in the order of paths.
PartsOf(kind, paths) ==
    LET readable == SelectSeq(paths, LAMBDA p : p.readable)
    IN  [i \in DOMAIN readable |-> [kind |-> kind, name |-> readable[i].name]]

\* C15: whatever inline and attachment paths cannot be read, building a message
\* raises nothing and goes on to the dispatch, and the parts of the message
\* are the alternative group, then the readable inline resources in the
\* order given, then the readable attachments in the order given.
C15_PartsInOrder ==
    [][pc = "build" =>
          /\ pc' = "dispatch"
          /\ fatal' = fatal
          /\ Len(msg'.parts) >= 1
          /\ Head(msg'.parts).kind = "alternative"
          /\ Tail(msg'.parts) =
                PartsOf("inline", args.inline) \o PartsOf("attachment", args.attach)]_vars

\* C15 witness: a run with an unreadable inline resource and an unreadable
\* attachment has sent a message of four parts and logged its summary.
C15_Witness ==
    /\ \E i \in DOMAIN args.inline : ~args.inline[i].readable
    /\ \E i \in DOMAIN args.attach : ~args.attach[i].readable
    /\ Len(msg.parts) = 4
    /\ outcome = "sent"
    /\ reported.logged
    /\ reported.sent >= 1

\* C16: a step of build_message in which saving the .eml file fails returns
\* the message it would return without --save-eml-dir, ends nothing, changes
\* no counter and leaves the recipient to the dispatch; the dispatch that
\* follows counts the recipient and returns to the loop.
C16_PersistFailureIsAdvisory ==
    [][/\ (pc = "build" /\ saved' = "failed") =>
             /\ pc' = "dispatch"
             /\ fatal' = fatal
             /\ msg' = build_message(cur.email_addr, Body(template_text, cur).text,
                                     Body(template_html, cur).text,
                                     args.inline, args.attach)
             /\ << total, sent, skipped, seen, outcome >>' =
                   << total, sent, skipped, seen, outcome >>
       /\ (pc = "dispatch" /\ saved = "failed") =>
             /\ pc' = "iterate"
             /\ fatal' = fatal
             /\ total' = total
             /\ outcome' \in {"sent", "send_failed", "sent_and_skipped"}
             /\ sent' + skipped' > sent + skipped]_vars

\* C16 witness: the .eml file of the last message could not be written, the
\* message was handed to the transport and counted as sent, and the summary
\* was logged.
C16_Witness ==
    /\ args.save_eml_dir
    /\ saved = "failed"
    /\ outcome = "sent"
    /\ handed # <<>>
    /\ handed[Len(handed)].n = built[Len(built)].n
    /\ reported.logged

\* C17: when no write has failed, every message built has its own .eml file:
\* no file was overwritten, and there are as many files as messages built.
C17_OneFilePerMessage ==
    (args.save_eml_dir /\ written = { b.n : b \in Range(built) }) =>
        /\ \A n \in written : \E f \in files : f.n = n
        /\ Cardinality(files) = Len(built)

\* The value a placeholder of the current recipient stands for.
BoundTo(k) ==
    IF k = "email" THEN Cell(cur.email_addr)
    ELSE IF k = "name" THEN Cell(IF cur.name = <<>> THEN cur.email_addr ELSE cur.name)
    ELSE cur.row[k]

\* C18: in the bodies of a built message {email} is the recipient's address,
\* {name} is the display name or, when that is empty, the address, also when
\* the row has columns called email and name; any other placeholder is the
\* cell of its column.
C18_BaseVariablesWin ==
    pc = "dispatch" =>
        /\ \A i \in DOMAIN template_text :
              template_text[i].key => msg.text_body[i] = BoundTo(template_text[i].k)
        /\ \A i \in DOMAIN template_html :
              template_html[i].key => msg.html_body[i] = BoundTo(template_html[i].k)

\* C18 witness: a message was built from a row whose email cell differs from
\* the stripped address and whose name cell is empty, with a template that uses
\* both {email} and {name}.
C18_Witness ==
    /\ pc = "dispatch"
    /\ args.csv
    /\ {"email", "name"} \subseteq DOMAIN cur.row
    /\ cur.row["email"] # Cell(cur.email_addr)
    /\ cur.name = <<>>
    /\ \E i, j \in DOMAIN template_text :
          /\ template_text[i].key /\ template_text[i].k = "email"
          /\ template_text[j].key /\ template_text[j].k = "name"

\* C19: the seen-set holds only valid addresses, it contains the valid
\* addresses of the earlier recipients and nothing but those and the current
\* one, and between recipients it is exactly the valid addresses met so far;
\* an address skipped as invalid is not in it because of that recipient, an
\* address skipped for consent or failed in transport is in it, a duplicate
\* was a valid earlier address, and sent is at most its size.
C19_SeenIsValidProcessed ==
    /\ \A a \in seen : is_valid_email(a)
    /\ prior \subseteq seen
    /\ seen \subseteq prior \cup {cur.email_addr}
    /\ AtBoundary => seen = PriorWith(cur)
    /\ outcome = "invalid" => seen = prior
    /\ outcome \in {"no_consent", "send_failed"} => cur.email_addr \in seen
    /\ outcome = "duplicate" => cur.email_addr \in prior
    /\ sent <= Cardinality(seen)

\* C19 witness: between recipients, after three of them: the last one failed
\* in transport and is in the seen-set, which has two addresses.
C19_Witness ==
    /\ pc = "iterate"
    /\ total = 3
    /\ outcome = "send_failed"
    /\ cur.email_addr \in seen
    /\ Cardinality(seen) = 2
    /\ sent <= 1

\* C20: when a missing template variable ends the run, every earlier
\* recipient was skipped at a gate: nothing was sent, built or handed to the
\* transport.
C20_AbortBeforeAnyDelivery ==
    fatal = "missing_variable" =>
        /\ sent = 0
        /\ skipped = total - 1
        /\ built = <<>>
        /\ handed = <<>>

\* C20 witness: a CSV run aborted on a missing variable at its third row, the
\* first to pass the gates.
C20_Witness ==
    /\ fatal = "missing_variable"
    /\ args.csv
    /\ total = 3
    /\ skipped = 2
    /\ Cardinality(seen) >= 1

====
